---- MODULE Spec2Model ----
(***************************************************************************)
(* Model of the caet crate (src/src/lib.rs): the Judge contract, the       *)
(* driving loop judge() and the strict wrapper judge_panic().              *)
(*                                                                         *)
(* The arbiter (J: Judge) and the subject (impl FnMut) are type parameters *)
(* of judge(): the arbiter is modelled as an arbitrary state machine whose *)
(* next() may return any Result, the subject as a callable that may return *)
(* any sequence of Change values.  SpecStack runs the same loop with the    *)
(* StackJudge of mod test_stack and the subjects of its tests.             *)
(***************************************************************************)
EXTENDS Integers, Sequences, FiniteSets, TLC

(***************************************************************************)
(* Bounds of the model.                                                    *)
(***************************************************************************)
\* The subject is invoked at most MaxCalls times in a modelled run.
MaxCalls == 2
\* The subject returns at most MaxOut reactions per invocation.
MaxOut == 2
\* The enumerated scenarios of a StackJudge have at most MaxScenario items.
MaxScenario == 4

(***************************************************************************)
(* The value universes of the generic parameters of Judge.                 *)
(***************************************************************************)
\* Judge::Change
Change == {"m1", "m2"}
\* Judge::Fault
Fault == {"f1", "f2"}
\* Judge::Error
Error == {"e1", "e2"}
\* The private state of an arbitrary arbiter (fields of the type J).
JudgeState == {0, 1}
\* How the arbiter was written: "any" may return anything on any call,
\* "loop" is the arbiter that returns Continue on every call.
JudgeKind == {"any", "loop"}

\* Vec<Change> values with at most n elements.
SeqUpTo(S, n) == UNION {[1..k -> S] : k \in 0..n}

(***************************************************************************)
(* enum Judgment<M, S> and Result<_, _>.                                   *)
(***************************************************************************)
Continue(m) == [tag |-> "Continue", val |-> m]
Halt(s) == [tag |-> "Halt", val |-> s]
Done == [tag |-> "Done", val |-> "-"]
Judgment == {Continue(m) : m \in Change} \cup {Halt(s) : s \in Fault} \cup {Done}

Ok(v) == [tag |-> "Ok", val |-> v]
Err(e) == [tag |-> "Err", val |-> e]
\* No value yet (a variable of the model that the program has not assigned).
None == [tag |-> "None", val |-> "-"]

\* struct Outcome<J>
Outcome(j, n) == [judgment |-> j, calls |-> n]

(***************************************************************************)
(* State.                                                                  *)
(***************************************************************************)
VARIABLES
    pc,        \* position of the control in judge() / judge_panic()
    kind,      \* how the arbiter was written (see JudgeKind)
    jst,       \* private state of the arbiter
    out,       \* judge(): let mut out
    ite,       \* judge(): let mut ite
    jud,       \* judge(): let jud
    result,    \* value returned by judge()
    strict,    \* what judge_panic() did with the value returned by judge()
    nextArgs,  \* history: the argument of every call to Judge::next
    juds,      \* history: the value returned by every call to Judge::next
    objIns,    \* history: the argument of every call to the subject
    objOuts,   \* history: the value returned by every call to the subject
    okind,     \* how the subject was written (see ObjectResults)
    ost,       \* private state of the subject (what its closure captured)
    script     \* history: the scenario a StackJudge was constructed with

vars == <<pc, kind, jst, out, ite, jud, result, strict, nextArgs, juds, objIns, objOuts,
          okind, ost, script>>


(***************************************************************************)
(* mod test_stack: enum StackChange.  An Option<i32> is <<>> for None and  *)
(* <<x>> for Some(x).                                                      *)
(***************************************************************************)
Push(x) == [op |-> "Push", arg |-> <<x>>]
Pop == [op |-> "Pop", arg |-> <<>>]
Value(o) == [op |-> "Value", arg |-> o]
ValueNone == Value(<<>>)
ValueSome(x) == Value(<<x>>)

\* The values a scripted Push carries in the enumerated scenarios.
PushVals == {1, 2}
\* The reactions an arbitrary subject of a StackJudge may produce.
StackReaction == {ValueNone, Push(42), Pop} \cup {ValueSome(v) : v \in PushVals}
\* The items an enumerated scenario is made of.
ScenarioItem == {Push(v) : v \in PushVals} \cup {Pop, ValueNone}

\* Variant: the two values are passed to the format in the other order.
ExpectedGotMsgSwapped(exp, value) ==
    "expected " \o ToString(value) \o ", got " \o ToString(exp)

\* format!("expected {:?}, got {:?}", exp, value)
ExpectedGotMsg(exp, value) == "expected " \o ToString(exp) \o ", got " \o ToString(value)

\* StackJudge::new_scenario
NewScenario(sce) == [scenario |-> sce, ref_impl |-> <<>>, expect |-> <<>>]

\* self.expect.drain(0..n): what is left in the deque once the Drain
\* iterator is dropped, however many items were taken from it.
Drain(expect, n) == SubSeq(expect, n + 1, Len(expect))

\* Variant: every reaction is compared with the expectation at the front.
ScanReactionsAgainstFront(reactions, expect, k) ==
    LET odd == {i \in k..Len(reactions) : reactions[i] # ValueSome(expect[1])}
    IN  IF odd = {}
        THEN [tag |-> "through", fault |-> "", put_back |-> <<>>]
        ELSE LET i == CHOOSE j \in odd : \A l \in odd : j <= l
                 eff == reactions[i]
             IN  IF eff.op = "Value" /\ eff.arg # <<>>
                 THEN [tag |-> "halt", fault |-> ExpectedGotMsg(expect[1], eff.arg[1]),
                       put_back |-> <<>>]
                 ELSE IF eff.op = "Value"
                 THEN [tag |-> "break", fault |-> "", put_back |-> <<expect[1]>>]
                 ELSE [tag |-> "halt", fault |-> "undefined response from stack",
                       put_back |-> <<>>]

\* The for loop over reactions.iter().zip(self.expect.drain(..)), from the
\* k-th pair on: the fault it returns with, the expectation it breaks with
\* (put_back), or neither.
RECURSIVE ScanReactions(_, _, _)
ScanReactions(reactions, expect, k) ==
    IF k > Len(reactions)
    THEN [tag |-> "through", fault |-> "", put_back |-> <<>>]
    ELSE LET eff == reactions[k]
             exp == expect[k]
         IN  IF eff.op = "Value" /\ eff.arg # <<>> /\ eff.arg[1] # exp
             THEN [tag |-> "halt", fault |-> ExpectedGotMsg(exp, eff.arg[1]),
                   put_back |-> <<>>]
             ELSE IF eff.op = "Value" /\ eff.arg = <<>>
             THEN [tag |-> "break", fault |-> "", put_back |-> <<exp>>]
             ELSE IF eff.op = "Value"
             THEN ScanReactions(reactions, expect, k + 1)
             ELSE [tag |-> "halt", fault |-> "undefined response from stack",
                   put_back |-> <<>>]

\* Variant: at the end of the scenario the unanswered expectations are a fault.
NextActionFlush(s) ==
    IF s.scenario = <<>>
    THEN IF s.expect = <<>> THEN <<s, Ok(Done)>> ELSE <<s, Ok(Halt("missing reactions"))>>
    ELSE LET act == Head(s.scenario)
             t == [s EXCEPT !.scenario = Tail(s.scenario)]
         IN  CASE act.op = "Push" ->
                    <<[t EXCEPT !.ref_impl = Append(s.ref_impl, act.arg[1])],
                      Ok(Continue(act))>>
               [] act.op = "Pop" ->
                    IF s.ref_impl # <<>>
                    THEN <<[t EXCEPT !.ref_impl = SubSeq(s.ref_impl, 1, Len(s.ref_impl) - 1),
                                     !.expect = Append(s.expect, s.ref_impl[Len(s.ref_impl)])],
                           Ok(Continue(act))>>
                    ELSE <<t, Err("bad sim: more pops than pushes")>>
               [] act.op = "Value" -> <<t, Err("bad sim: Value in scenario")>>

\* Variant: a scripted Pop of the empty reference stack is blamed on the subject.
NextActionBlamesSubject(s) ==
    IF s.scenario = <<>>
    THEN <<s, Ok(Done)>>
    ELSE LET act == Head(s.scenario)
             t == [s EXCEPT !.scenario = Tail(s.scenario)]
         IN  CASE act.op = "Push" ->
                    <<[t EXCEPT !.ref_impl = Append(s.ref_impl, act.arg[1])],
                      Ok(Continue(act))>>
               [] act.op = "Pop" ->
                    IF s.ref_impl # <<>>
                    THEN <<[t EXCEPT !.ref_impl = SubSeq(s.ref_impl, 1, Len(s.ref_impl) - 1),
                                     !.expect = Append(s.expect, s.ref_impl[Len(s.ref_impl)])],
                           Ok(Continue(act))>>
                    ELSE <<t, Ok(Halt("bad sim: more pops than pushes"))>>
               [] act.op = "Value" -> <<t, Err("bad sim: Value in scenario")>>

\* Variant: the scripted Pop takes the oldest value of the reference stack.
NextActionFifo(s) ==
    IF s.scenario = <<>>
    THEN <<s, Ok(Done)>>
    ELSE LET act == Head(s.scenario)
             t == [s EXCEPT !.scenario = Tail(s.scenario)]
         IN  CASE act.op = "Push" ->
                    <<[t EXCEPT !.ref_impl = Append(s.ref_impl, act.arg[1])],
                      Ok(Continue(act))>>
               [] act.op = "Pop" ->
                    IF s.ref_impl # <<>>
                    THEN <<[t EXCEPT !.ref_impl = Tail(s.ref_impl),
                                     !.expect = Append(s.expect, Head(s.ref_impl))],
                           Ok(Continue(act))>>
                    ELSE <<t, Err("bad sim: more pops than pushes")>>
               [] act.op = "Value" -> <<t, Err("bad sim: Value in scenario")>>

\* Variant: a scripted Push is issued but stays at the front of the scenario.
NextActionKeepsPush(s) ==
    IF s.scenario = <<>>
    THEN <<s, Ok(Done)>>
    ELSE LET act == Head(s.scenario)
             t == [s EXCEPT !.scenario = Tail(s.scenario)]
         IN  CASE act.op = "Push" ->
                    <<[s EXCEPT !.ref_impl = Append(s.ref_impl, act.arg[1])],
                      Ok(Continue(act))>>
               [] act.op = "Pop" ->
                    IF s.ref_impl # <<>>
                    THEN <<[t EXCEPT !.ref_impl = SubSeq(s.ref_impl, 1, Len(s.ref_impl) - 1),
                                     !.expect = Append(s.expect, s.ref_impl[Len(s.ref_impl)])],
                           Ok(Continue(act))>>
                    ELSE <<t, Err("bad sim: more pops than pushes")>>
               [] act.op = "Value" -> <<t, Err("bad sim: Value in scenario")>>

\* Variant: the scenario is read from its back (pop_back).
NextActionPopBack(s) ==
    IF s.scenario = <<>>
    THEN <<s, Ok(Done)>>
    ELSE LET act == s.scenario[Len(s.scenario)]
             t == [s EXCEPT !.scenario = SubSeq(s.scenario, 1, Len(s.scenario) - 1)]
         IN  CASE act.op = "Push" ->
                    <<[t EXCEPT !.ref_impl = Append(s.ref_impl, act.arg[1])],
                      Ok(Continue(act))>>
               [] act.op = "Pop" ->
                    IF s.ref_impl # <<>>
                    THEN <<[t EXCEPT !.ref_impl = SubSeq(s.ref_impl, 1, Len(s.ref_impl) - 1),
                                     !.expect = Append(s.expect, s.ref_impl[Len(s.ref_impl)])],
                           Ok(Continue(act))>>
                    ELSE <<t, Err("bad sim: more pops than pushes")>>
               [] act.op = "Value" -> <<t, Err("bad sim: Value in scenario")>>

\* if let Some(act) = self.scenario.pop_front() { .. } else { Ok(Done) }
\* on the state s left by the validation of the reactions.
NextAction(s) ==
    IF s.scenario = <<>>
    THEN <<s, Ok(Done)>>
    ELSE LET act == Head(s.scenario)
             t == [s EXCEPT !.scenario = Tail(s.scenario)]
         IN  CASE act.op = "Push" ->
                    <<[t EXCEPT !.ref_impl = Append(s.ref_impl, act.arg[1])],
                      Ok(Continue(act))>>
               [] act.op = "Pop" ->
                    IF s.ref_impl # <<>>
                    THEN <<[t EXCEPT !.ref_impl = SubSeq(s.ref_impl, 1, Len(s.ref_impl) - 1),
                                     !.expect = Append(s.expect, s.ref_impl[Len(s.ref_impl)])],
                           Ok(Continue(act))>>
                    ELSE <<t, Err("bad sim: more pops than pushes")>>
               [] act.op = "Value" -> <<t, Err("bad sim: Value in scenario")>>

\* Variant: no length test, the reactions beyond the expectations are ignored.
StackJudgeNextNoLengthTest(s, reactions) ==
    LET n == IF Len(reactions) < Len(s.expect) THEN Len(reactions) ELSE Len(s.expect)
        scan == ScanReactions(SubSeq(reactions, 1, n), s.expect, 1)
        left == Drain(s.expect, n)
    IN  IF scan.tag = "halt"
        THEN <<[s EXCEPT !.expect = left], Ok(Halt(scan.fault))>>
        ELSE NextAction([s EXCEPT !.expect = scan.put_back \o left])

\* Variant: the number of reactions must equal the number of expectations.
StackJudgeNextStrictCount(s, reactions) ==
    IF Len(s.expect) # Len(reactions)
    THEN <<s, Ok(Halt("too many reactions"))>>
    ELSE LET scan == ScanReactions(reactions, s.expect, 1)
             left == Drain(s.expect, Len(reactions))
         IN  IF scan.tag = "halt"
             THEN <<[s EXCEPT !.expect = left], Ok(Halt(scan.fault))>>
             ELSE NextAction([s EXCEPT !.expect = scan.put_back \o left])

\* Variant: the expectation compared with a Value(None) is not put back.
StackJudgeNextNoPutBack(s, reactions) ==
    IF Len(s.expect) < Len(reactions)
    THEN <<s, Ok(Halt("too many reactions"))>>
    ELSE LET scan == ScanReactions(reactions, s.expect, 1)
             left == Drain(s.expect, Len(reactions))
         IN  IF scan.tag = "halt"
             THEN <<[s EXCEPT !.expect = left], Ok(Halt(scan.fault))>>
             ELSE NextAction([s EXCEPT !.expect = left])

\* impl Judge for StackJudge: next(&mut self, reactions), as the pair
\* <<self after the call, returned value>>.
StackJudgeNext(s, reactions) ==
    IF Len(s.expect) < Len(reactions)
    THEN <<s, Ok(Halt("too many reactions"))>>
    ELSE LET scan == ScanReactions(reactions, s.expect, 1)
             left == Drain(s.expect, Len(reactions))
         IN  IF scan.tag = "halt"
             THEN <<[s EXCEPT !.expect = left], Ok(Halt(scan.fault))>>
             ELSE NextAction([s EXCEPT !.expect = scan.put_back \o left])

\* fn scenario_1, scenario_2, scenario_3, scenario_4
Scenario1 == <<Push(1), Push(2), Push(3), Pop, Pop, Push(4), Pop>>
Scenario2 == <<Push(1), Pop, Pop>>
Scenario3 == <<Push(1), Push(2), Push(3), Pop>>
Scenario4 == <<Push(1), Push(2), Push(3), Pop, Pop, Pop, Push(4), Push(5), Pop, Pop>>
NamedScenarios == {Scenario1, Scenario2, Scenario3, Scenario4}

(***************************************************************************)
(* The subjects of mod test_stack, as <<state after the call, returned     *)
(* vector>>.                                                               *)
(***************************************************************************)
\* demo_impl_good: the captured state is the stack.
DemoImplGood(stack, msg) ==
    IF msg.op = "Push"
    THEN <<Append(stack, msg.arg[1]), <<>>>>
    ELSE IF stack = <<>>
         THEN <<stack, <<ValueNone>>>>
         ELSE <<SubSeq(stack, 1, Len(stack) - 1), <<ValueSome(stack[Len(stack)])>>>>

\* demo_impl_discard
DemoImplDiscard(st, msg) == <<st, <<>>>>

\* demo_impl_dumb
DemoImplDumb(st, msg) ==
    IF msg.op = "Push" THEN <<st, <<ValueNone>>>> ELSE <<st, <<ValueSome(0)>>>>

\* demo_impl_zero_smart: the captured state is the count.
DemoImplZeroSmart(count, msg) ==
    IF msg.op = "Push"
    THEN <<count + 1, <<>>>>
    ELSE IF count = 0
         THEN <<count, <<ValueNone>>>>
         ELSE <<count - 1, <<ValueSome(0)>>>>

\* demo_impl_empty
DemoImplEmpty(st, msg) ==
    IF msg.op = "Push" THEN <<st, <<>>>> ELSE <<st, <<ValueNone>>>>

\* demo_impl_irrelevant
DemoImplIrrelevant(st, msg) ==
    IF msg.op = "Push" THEN <<st, <<>>>> ELSE <<st, <<Push(42)>>>>

\* A subject that keeps a stack, queues the value of every Pop and hands
\* over, on each call, any number of the values at the front of its queue.
\* The captured state is <<stack, queue>>.
Buffering(st, msg) ==
    LET stack == st[1]
        queue == st[2]
        stack2 == IF msg.op = "Push" THEN Append(stack, msg.arg[1])
                  ELSE SubSeq(stack, 1, Len(stack) - 1)
        queue2 == IF msg.op = "Pop" /\ stack # <<>>
                  THEN Append(queue, stack[Len(stack)]) ELSE queue
        most == IF Len(queue2) < MaxOut THEN Len(queue2) ELSE MaxOut
    IN  {<<<<stack2, SubSeq(queue2, n + 1, Len(queue2))>>,
           [i \in 1..n |-> ValueSome(queue2[i])]>> : n \in 0..most}

(***************************************************************************)
(* The guessing game of the crate documentation: enum GuessIs, the arbiter *)
(* MyJudge { count, target, begun } and the bisecting agent.               *)
(***************************************************************************)
Start == [op |-> "Start", arg |-> <<>>]
TooLow == [op |-> "TooLow", arg |-> <<>>]
TooHigh == [op |-> "TooHigh", arg |-> <<>>]
GuessValue(n) == [op |-> "Value", arg |-> <<n>>]

\* format!("It was {}.", self.target)
ItWasMsg(target) == "It was " \o ToString(target) \o "."
\* format!("Invalid reaction type for agent: {:?}", reaction), for the
\* reactions without a payload.
InvalidReactionMsg(reaction) == "Invalid reaction type for agent: " \o reaction.op
\* format!("You can't just pass a turn.")
PassMsg == "You can't just pass a turn."

\* Variant: the tenth guess is already one too many.
MyJudgeNextTenthTooMany(s, reactions) ==
    IF ~s.begun
    THEN <<[s EXCEPT !.begun = TRUE], Ok(Continue(Start))>>
    ELSE IF reactions # <<>>
         THEN LET reaction == reactions[Len(reactions)]
                  t == [s EXCEPT !.count = s.count + 1]
              IN  IF t.count >= 10
                  THEN <<t, Ok(Halt(ItWasMsg(s.target)))>>
                  ELSE CASE reaction.op = "Value" /\ reaction.arg[1] = s.target ->
                                <<t, Ok(Done)>>
                         [] reaction.op = "Value" /\ reaction.arg[1] < s.target ->
                                <<t, Ok(Continue(TooLow))>>
                         [] reaction.op = "Value" /\ reaction.arg[1] > s.target ->
                                <<t, Ok(Continue(TooHigh))>>
                         [] OTHER -> <<t, Ok(Halt(InvalidReactionMsg(reaction)))>>
         ELSE <<s, Ok(Halt(PassMsg))>>

\* impl Judge for MyJudge: next(&mut self, reactions), as the pair
\* <<self after the call, returned value>>.
MyJudgeNext(s, reactions) ==
    IF ~s.begun
    THEN <<[s EXCEPT !.begun = TRUE], Ok(Continue(Start))>>
    ELSE IF reactions # <<>>
         THEN LET reaction == reactions[Len(reactions)]
                  t == [s EXCEPT !.count = s.count + 1]
              IN  IF t.count > 10
                  THEN <<t, Ok(Halt(ItWasMsg(s.target)))>>
                  ELSE CASE reaction.op = "Value" /\ reaction.arg[1] = s.target ->
                                <<t, Ok(Done)>>
                         [] reaction.op = "Value" /\ reaction.arg[1] < s.target ->
                                <<t, Ok(Continue(TooLow))>>
                         [] reaction.op = "Value" /\ reaction.arg[1] > s.target ->
                                <<t, Ok(Continue(TooHigh))>>
                         [] OTHER -> <<t, Ok(Halt(InvalidReactionMsg(reaction)))>>
         ELSE <<s, Ok(Halt(PassMsg))>>

\* a / b on i32: the quotient is truncated toward zero.
TruncDiv(a, b) == IF a >= 0 THEN a \div b ELSE -((-a) \div b)

\* let mut lower_bound = -1000; let mut upper_bound = 1000; let mut guess = 0;
BisectInit == [lower_bound |-> -1000, upper_bound |-> 1000, guess |-> 0]

\* The bisecting agent: the captured state is the bounds and the guess. It
\* panics on Value(_), which MyJudge never sends.
Bisect(st, observation) ==
    LET b == CASE observation = Start -> st
               [] observation = TooLow -> [st EXCEPT !.lower_bound = st.guess]
               [] observation = TooHigh -> [st EXCEPT !.upper_bound = st.guess]
        g == TruncDiv(b.lower_bound + b.upper_bound, 2)
    IN  <<[b EXCEPT !.guess = g], <<GuessValue(g)>>>>

\* The targets the bisecting agent is tried on: the documented one, the ends
\* of the range and two more.
GuessTargets == {42, -1000, 1000, -999, 0, 7}
\* The target the arbitrary agent is tried on: of its replies, two continue
\* the game.
NearTargets == {42}
\* What the arbitrary agent may return on a turn: nothing, a guess, a
\* reaction that is not a guess, or two guesses.
AgentReplies ==
    {<<>>, <<GuessValue(41)>>, <<GuessValue(42)>>, <<GuessValue(43)>>, <<TooLow>>,
     <<GuessValue(41), GuessValue(42)>>}

\* The subjects a run may be given.
SubjectKind ==
    {"any", "good", "discard", "dumb", "zero_smart", "buffering", "empty", "irrelevant"}

\* The state a subject starts in.
InitSubject(ok) ==
    CASE ok = "zero_smart" -> 0
      [] ok = "buffering" -> <<<<>>, <<>>>>
      [] ok = "bisect" -> BisectInit
      [] OTHER -> <<>>

\* object(msg): the <<state after the call, returned vector>> pairs the
\* subject may produce; the arbitrary subject of an arbiter of kind k
\* returns any vector of at most MaxOut reactions.
ObjectResults(k, ok, st, msg) ==
    CASE ok = "good" -> {DemoImplGood(st, msg)}
      [] ok = "discard" -> {DemoImplDiscard(st, msg)}
      [] ok = "dumb" -> {DemoImplDumb(st, msg)}
      [] ok = "zero_smart" -> {DemoImplZeroSmart(st, msg)}
      [] ok = "buffering" -> Buffering(st, msg)
      [] ok = "empty" -> {DemoImplEmpty(st, msg)}
      [] ok = "irrelevant" -> {DemoImplIrrelevant(st, msg)}
      [] ok = "bisect" -> {Bisect(st, msg)}
      [] OTHER -> {st} \X (CASE k = "stack" -> SeqUpTo(StackReaction, MaxOut)
                              [] k = "guess" -> AgentReplies
                              [] OTHER -> SeqUpTo(Change, MaxOut))

(***************************************************************************)
(* Judge::next of an arbitrary implementation: the set of                  *)
(* <<new private state, returned value>> pairs it may produce.             *)
(***************************************************************************)
JudgeNextResults(k, s, reactions) ==
    IF k = "stack" THEN {StackJudgeNext(s, reactions)} ELSE
    IF k = "guess" THEN {MyJudgeNext(s, reactions)} ELSE
    LET rets == IF k = "loop"
                THEN {Ok(Continue(m)) : m \in Change}
                ELSE {Ok(j) : j \in Judgment} \cup {Err(e) : e \in Error}
    IN  JudgeState \X rets

(***************************************************************************)
(* judge(): pieces of the loop body.                                       *)
(***************************************************************************)
\* Variant: the loop starts with a reaction already in out.
InitOutStale == <<"m1">>

\* let mut out = vec![];
InitOut == <<>>

\* let mut ite = 0;
InitIte == 0

\* mem::take(&mut out): the value moved out and the value left behind.
MemTake(o) == [taken |-> o, left |-> <<>>]

\* Variant: the Ok(j) arm is tried first for some payloads, so that a Continue
\* is returned to the caller.
MatchArmOkFirst(r) ==
    CASE r.tag = "Ok" /\ r.val = Continue("m2") -> "Ok"
      [] r.tag = "Ok" /\ r.val.tag = "Continue" -> "Continue"
      [] r.tag = "Ok" -> "Ok"
      [] r.tag = "Err" -> "Err"

\* Variant: the loop gives up on the first Continue("m1") and returns it.
MatchArmGiveUp(r) ==
    CASE r.tag = "Ok" /\ r.val = Continue("m1") -> "Ok"
      [] r.tag = "Ok" /\ r.val.tag = "Continue" -> "Continue"
      [] r.tag = "Ok" -> "Ok"
      [] r.tag = "Err" -> "Err"

\* match jud { Ok(Continue(msg)) => .., Ok(j) => .., Err(e) => .. }:
\* the arm selected, arms tried in source order.
MatchArm(r) ==
    CASE r.tag = "Ok" /\ r.val.tag = "Continue" -> "Continue"
      [] r.tag = "Ok" -> "Ok"
      [] r.tag = "Err" -> "Err"

\* Variant: the subject is always given the same input.
ObjectArgFixed(r) == "m1"

\* object(msg): the argument handed to the subject on the Continue arm.
ObjectArg(r) == r.val.val

\* Variant: the new reactions are pushed in reverse order.
NewOutReversed(old, ret) == [i \in 1..Len(ret) |-> ret[Len(ret) + 1 - i]]

\* out = object(msg);
NewOut(old, ret) == ret

\* Variant: the count is advanced by two.
IncIteTwice(n) == n + 2

\* ite += 1;
IncIte(n) == n + 1

\* Variant: the turn that ended the run is counted as a subject call.
OkArmCountsLastTurn(r, n) == Ok(Outcome(r.val, n + 1))

\* Variant: every terminal verdict is reported as Done.
OkArmAlwaysDone(r, n) == Ok(Outcome(Done, n))

\* return Ok(Outcome { judgment: j, calls: ite })
OkArm(r, n) == Ok(Outcome(r.val, n))

\* Variant: the arbiter's error is swallowed into an Outcome.
ErrArmSwallowed(r) == Ok(Outcome(Halt("f1"), 0))

\* Err(e) => return Err(e)
ErrArm(r) == Err(r.val)

(***************************************************************************)
(* judge_panic(): the match on judge(j, object).map(|o| o.decompose()).    *)
(* A normal return is Returns(count), a panic is Panics(message).          *)
(***************************************************************************)
Returns(n) == [tag |-> "Returns", val |-> n]
Panics(msg) == [tag |-> "Panics", val |-> msg]

\* "subject fault (iter count: {count}): {why}"
SubjectFaultMsg(count, why) ==
    "subject fault (iter count: " \o ToString(count) \o "): " \o why

\* "judge fault (iter count: {count}): judge stopped at continue"
JudgeFaultMsg(count) ==
    "judge fault (iter count: " \o ToString(count) \o "): judge stopped at continue"

\* "judge fail (internal error): {e}"
JudgeFailMsg(e) == "judge fail (internal error): " \o e

\* Variant: a Halt is taken for a success and the count is returned.
JudgePanicMatchLenient(r) ==
    CASE r.tag = "Ok" /\ r.val.judgment.tag \in {"Done", "Halt"} -> Returns(r.val.calls)
      [] r.tag = "Ok" /\ r.val.judgment.tag = "Continue" ->
            Panics(JudgeFaultMsg(r.val.calls))
      [] r.tag = "Err" -> Panics(JudgeFailMsg(r.val))

JudgePanicMatch(r) ==
    CASE r.tag = "Ok" /\ r.val.judgment.tag = "Done" -> Returns(r.val.calls)
      [] r.tag = "Ok" /\ r.val.judgment.tag = "Halt" ->
            Panics(SubjectFaultMsg(r.val.calls, r.val.judgment.val))
      [] r.tag = "Ok" /\ r.val.judgment.tag = "Continue" ->
            Panics(JudgeFaultMsg(r.val.calls))
      [] r.tag = "Err" -> Panics(JudgeFailMsg(r.val))

(***************************************************************************)
(* Initial state: judge(j, object) has been entered with an arbiter of any *)
(* kind in any private state; the locals out and ite are initialised.      *)
(***************************************************************************)
Init ==
    /\ pc = "loop"
    /\ kind \in JudgeKind
    /\ jst \in JudgeState
    /\ out = InitOut
    /\ ite = InitIte
    /\ jud = None
    /\ result = None
    /\ strict = None
    /\ nextArgs = <<>>
    /\ juds = <<>>
    /\ objIns = <<>>
    /\ objOuts = <<>>
    /\ okind = "any"
    /\ ost = InitSubject(okind)
    /\ script = <<>>

\* Scenarios of at most MaxScenario items.
ShortScenarios == SeqUpTo(ScenarioItem, MaxScenario)

\* Two pushes and two pops followed by a step the reference model cannot
\* take: a third Pop, or a Value.
OverrunScenarios ==
    {<<Push(1), Push(2), Pop, Pop, last>> : last \in {Pop, ValueNone}}

\* judge(StackJudge::new_scenario(sce), object): the arbitrary subject is run
\* on the short scenarios and on the overrun scenarios, the subjects of the
\* tests on the short scenarios and on the scenarios of the tests.
InitStack ==
    /\ pc = "loop"
    /\ kind = "stack"
    /\ okind \in SubjectKind
    /\ script \in IF okind = "any" THEN ShortScenarios \cup OverrunScenarios
                 ELSE ShortScenarios \cup NamedScenarios
    /\ jst = NewScenario(script)
    /\ ost = InitSubject(okind)
    /\ out = InitOut
    /\ ite = InitIte
    /\ jud = None
    /\ result = None
    /\ strict = None
    /\ nextArgs = <<>>
    /\ juds = <<>>
    /\ objIns = <<>>
    /\ objOuts = <<>>

\* judge(MyJudge { count: 0, target, begun: false }, &mut object) with the
\* bisecting agent or an arbitrary agent.
InitGuess ==
    /\ pc = "loop"
    /\ kind = "guess"
    /\ okind \in {"bisect", "any"}
    /\ \E target \in IF okind = "bisect" THEN GuessTargets ELSE NearTargets :
          jst = [count |-> 0, target |-> target, begun |-> FALSE]
    /\ ost = InitSubject(okind)
    /\ script = <<>>
    /\ out = InitOut
    /\ ite = InitIte
    /\ jud = None
    /\ result = None
    /\ strict = None
    /\ nextArgs = <<>>
    /\ juds = <<>>
    /\ objIns = <<>>
    /\ objOuts = <<>>

(***************************************************************************)
(* Actions.                                                                *)
(***************************************************************************)
\* let jud = judge.next(mem::take(&mut out));
CallNext ==
    /\ pc = "loop"
    /\ LET t == MemTake(out)
       IN  \E sr \in JudgeNextResults(kind, jst, t.taken) :
              /\ jst' = sr[1]
              /\ jud' = sr[2]
              /\ out' = t.left
              /\ nextArgs' = Append(nextArgs, t.taken)
              /\ juds' = Append(juds, sr[2])
    /\ pc' = "match"
    /\ UNCHANGED <<kind, ite, result, strict, objIns, objOuts, okind, ost, script>>

\* Ok(Judgment::Continue(msg)) => { out = object(msg);
CallObject ==
    /\ pc = "match"
    /\ MatchArm(jud) = "Continue"
    /\ kind \in {"stack", "guess"} \/ Len(objIns) < MaxCalls
    /\ \E sr \in ObjectResults(kind, okind, ost, ObjectArg(jud)) :
          /\ ost' = sr[1]
          /\ out' = NewOut(out, sr[2])
          /\ objIns' = Append(objIns, ObjectArg(jud))
          /\ objOuts' = Append(objOuts, sr[2])
    /\ pc' = "inc"
    /\ UNCHANGED <<kind, jst, ite, jud, result, strict, nextArgs, juds, okind, script>>

\* ite += 1; } and back to the top of the loop
Increment ==
    /\ pc = "inc"
    /\ ite' = IncIte(ite)
    /\ pc' = "loop"
    /\ UNCHANGED <<kind, jst, out, jud, result, strict, nextArgs, juds, objIns, objOuts,
                   okind, ost, script>>

\* Ok(j) => return Ok(Outcome { judgment: j, calls: ite })
ReturnOutcome ==
    /\ pc = "match"
    /\ MatchArm(jud) = "Ok"
    /\ result' = OkArm(jud, ite)
    /\ pc' = "returned"
    /\ UNCHANGED <<kind, jst, out, ite, jud, strict, nextArgs, juds, objIns, objOuts,
                   okind, ost, script>>

\* Err(e) => return Err(e)
ReturnErr ==
    /\ pc = "match"
    /\ MatchArm(jud) = "Err"
    /\ result' = ErrArm(jud)
    /\ pc' = "returned"
    /\ UNCHANGED <<kind, jst, out, ite, jud, strict, nextArgs, juds, objIns, objOuts,
                   okind, ost, script>>

\* judge_panic(): match judge(j, object).map(|o| o.decompose()) { .. }
JudgePanic ==
    /\ pc = "returned"
    /\ strict' = JudgePanicMatch(result)
    /\ pc' = "exit"
    /\ UNCHANGED <<kind, jst, out, ite, jud, result, nextArgs, juds, objIns, objOuts,
                   okind, ost, script>>

Next ==
    \/ CallNext
    \/ CallObject
    \/ Increment
    \/ ReturnOutcome
    \/ ReturnErr
    \/ JudgePanic

Spec == Init /\ [][Next]_vars

\* The program is sequential: whichever step is enabled is eventually taken.
FairSpec == Spec /\ WF_vars(Next)

\* The runs of judge() and judge_panic() with a StackJudge.
SpecStack == InitStack /\ [][Next]_vars

\* The steps of a run whose arbiter has Error = Infallible: the Err arm of
\* the match cannot be taken.
NextInfallible ==
    \/ CallNext
    \/ CallObject
    \/ Increment
    \/ ReturnOutcome
    \/ JudgePanic

\* The runs of the guessing game.
SpecGuess == InitGuess /\ [][NextInfallible]_vars

\* The same runs, every enabled step being eventually taken.
FairSpecStack == SpecStack /\ WF_vars(Next)

(***************************************************************************)
(* Definitions shared by the properties.                                   *)
(***************************************************************************)
\* Number of calls made to Judge::next and to the subject so far.
JudgeCalls == Len(nextArgs)
ObjectCalls == Len(objIns)
\* judge() has returned.
Returned == result # None
\* A value returned by Judge::next that is not Ok(Continue(_)).
Terminal(r) == r.tag = "Err" \/ r.val.tag # "Continue"

TypeOK ==
    /\ pc \in {"loop", "match", "inc", "returned", "exit"}
    /\ kind \in JudgeKind
    /\ jst \in JudgeState
    /\ out \in SeqUpTo(Change, MaxOut)
    /\ ite \in 0..MaxCalls
    /\ Len(juds) = Len(nextArgs)
    /\ Len(objIns) = Len(objOuts)

\* The last value returned by Judge::next.
LastJud == juds[Len(juds)]
\* A value returned by Judge::next that is Ok(Done) or Ok(Halt(_)).
Verdict(r) == r.tag = "Ok" /\ r.val.tag \in {"Done", "Halt"}
\* Text helpers for the failure messages.
HasPrefix(s, p) == Len(s) >= Len(p) /\ SubSeq(s, 1, Len(p)) = p
Contains(s, t) == \E i \in 1..(Len(s) - Len(t) + 1) : SubSeq(s, i, i + Len(t) - 1) = t

(***************************************************************************)
(* Properties of the driving loop.                                         *)
(***************************************************************************)

\* C1: the first call judge() makes to Judge::next passes an empty reaction
\* sequence, whatever the arbiter's kind and private state, and no call to
\* the subject precedes it.
C1_FirstNextIsSilence ==
    /\ JudgeCalls = 0 => ObjectCalls = 0
    /\ JudgeCalls >= 1 => nextArgs[1] = <<>>

\* C1 witness: the arbiter has been called a second time with a non-empty
\* sequence, so the emptiness of the first argument is not the emptiness of
\* every argument.
C1_Witness ==
    /\ JudgeCalls >= 2
    /\ nextArgs[1] = <<>>
    /\ nextArgs[2] # <<>>

\* C2: the calls field of a returned Outcome is the number of times the
\* subject was invoked; when the arbiter's first answer is Done or Halt the
\* Outcome has calls = 0 and the subject was never invoked.
C2_CallsCountsSubject ==
    result.tag = "Ok" =>
        /\ result.val.calls = ObjectCalls
        /\ Verdict(juds[1]) => result.val.calls = 0 /\ ObjectCalls = 0

\* C2 witness: an Outcome returned after two or more subject invocations.
C2_Witness ==
    /\ result.tag = "Ok"
    /\ ObjectCalls >= 2
    /\ result.val.calls = ObjectCalls

C4_NextReceivesLastOutput ==
    \A i \in 2..JudgeCalls :
        /\ i - 1 <= Len(objOuts)
        /\ nextArgs[i] = objOuts[i - 1]

\* C4 witness: the third call to Judge::next, after two subject invocations
\* that returned different sequences, the second one with two distinct
\* elements.
C4_Witness ==
    /\ JudgeCalls >= 3
    /\ Len(objOuts[1]) >= 1
    /\ Len(objOuts[2]) = 2
    /\ objOuts[2][1] # objOuts[2][2]
    /\ objOuts[1] # objOuts[2]
    /\ nextArgs[3] = objOuts[2]

\* C5: the k-th subject invocation answers the k-th value returned by
\* Judge::next, which is Continue(input) with that very input; and every
\* Continue returned has been answered by a subject invocation, except a
\* last one that the loop is about to answer.
C5_SubjectSeesContinuePayloads ==
    /\ \A i \in 1..ObjectCalls :
          /\ i <= Len(juds)
          /\ juds[i] = Ok(Continue(objIns[i]))
    /\ \A i \in 1..Len(juds) :
          (juds[i].tag = "Ok" /\ juds[i].val.tag = "Continue") =>
              \/ i <= ObjectCalls
              \/ i = Len(juds) /\ pc = "match"

\* C5 witness: two subject invocations with different inputs.
C5_Witness ==
    /\ ObjectCalls >= 2
    /\ objIns[1] # objIns[2]
    /\ juds[2] = Ok(Continue(objIns[2]))

\* C6: the arbiter has been called as often as the subject or once more,
\* at every point of the run; when judge() has returned the arbiter has been
\* called exactly ite + 1 times, ite being the calls of the Outcome.
C6_StrictAlternation ==
    /\ JudgeCalls \in {ObjectCalls, ObjectCalls + 1}
    /\ Returned => JudgeCalls = ite + 1
    /\ result.tag = "Ok" => JudgeCalls = result.val.calls + 1

\* C6 witness: judge() returned after two or more turns.
C6_Witness ==
    /\ Returned
    /\ ite >= 2
    /\ JudgeCalls = ite + 1

\* C7: a Done or Halt returned by Judge::next is the last call of the run:
\* no later arbiter call, no later subject call, and the value judge()
\* returns is an Outcome holding that same verdict.
C7_TerminalVerdictStops ==
    \A i \in 1..Len(juds) :
        Verdict(juds[i]) =>
            /\ i = Len(juds)
            /\ ObjectCalls = i - 1
            /\ pc \in {"match", "returned", "exit"}
            /\ pc # "match" => result.tag = "Ok" /\ result.val.judgment = juds[i].val

\* C7 witness: judge() returned Halt("f2") after at least one turn.
C7_Witness ==
    /\ result.tag = "Ok"
    /\ result.val.judgment = Halt("f2")
    /\ LastJud = Ok(Halt("f2"))
    /\ ObjectCalls >= 1

\* C8: an Err(e) returned by Judge::next is the last call of the run: no
\* later arbiter call, no later subject call, and judge() returns Err(e)
\* with the same e, not an Outcome.
C8_ErrorPropagates ==
    \A i \in 1..Len(juds) :
        juds[i].tag = "Err" =>
            /\ i = Len(juds)
            /\ ObjectCalls = i - 1
            /\ pc \in {"match", "returned", "exit"}
            /\ pc # "match" => result = Err(juds[i].val)

\* C8 witness: judge() returned Err("e2") after at least one turn.
C8_Witness ==
    /\ result = Err("e2")
    /\ LastJud = Err("e2")
    /\ ObjectCalls >= 1

\* C9: judge() returns only after the arbiter returned Done, Halt or an
\* error, and then it does return; with the arbiter that always returns
\* Continue it never returns and the subject is invoked as often as the
\* model allows.
C9_TerminatesIffArbiterStops ==
    /\ [](Returned => Terminal(LastJud))
    /\ [](pc = "match" /\ Terminal(jud) => <>Returned)
    /\ [](kind = "loop" => ~Returned)
    /\ [](kind = "loop" => <>(ObjectCalls = MaxCalls))

\* C9 witness: the always-Continue arbiter has been called after MaxCalls
\* subject invocations, and answered Continue again.
C9_Witness ==
    /\ kind = "loop"
    /\ ObjectCalls = MaxCalls
    /\ JudgeCalls = MaxCalls + 1
    /\ ~Returned

\* C10: judge_panic returns calls on Done and only on Done; on Halt(fault)
\* it panics with a message that starts with "subject fault" and embeds
\* calls and the fault; on Err(e) it panics with a message that starts with
\* "judge fail (internal error)" and embeds e; no message of one mode starts
\* with the prefix of another mode.
C10_JudgePanicMapping ==
    pc = "exit" =>
        /\ strict.tag = "Returns" <=> (result.tag = "Ok" /\ result.val.judgment = Done)
        /\ strict.tag = "Returns" => strict.val = result.val.calls
        /\ strict.tag = "Panics" <=> (result.tag = "Err" \/ result.val.judgment.tag = "Halt")
        /\ (result.tag = "Ok" /\ result.val.judgment.tag = "Halt") =>
              /\ HasPrefix(strict.val, "subject fault")
              /\ Contains(strict.val, "(iter count: " \o ToString(ObjectCalls) \o ")")
              /\ Contains(strict.val, result.val.judgment.val)
              /\ ~HasPrefix(strict.val, "judge fail")
              /\ ~HasPrefix(strict.val, "judge fault")
        /\ result.tag = "Err" =>
              /\ HasPrefix(strict.val, "judge fail (internal error)")
              /\ Contains(strict.val, result.val)
              /\ ~HasPrefix(strict.val, "subject fault")
              /\ ~HasPrefix(strict.val, "judge fault")

\* C10 witness: judge_panic panicked on a Halt reached after one turn or
\* more.
C10_Witness ==
    /\ pc = "exit"
    /\ strict.tag = "Panics"
    /\ result.tag = "Ok"
    /\ result.val.judgment.tag = "Halt"
    /\ result.val.calls >= 1

RECURSIVE NeverPopsEmpty(_, _)
NeverPopsEmpty(sc, depth) ==
    IF sc = <<>> THEN TRUE
    ELSE CASE Head(sc).op = "Push" -> NeverPopsEmpty(Tail(sc), depth + 1)
           [] Head(sc).op = "Pop" -> depth > 0 /\ NeverPopsEmpty(Tail(sc), depth - 1)
           [] OTHER -> FALSE
ValidScenario(sc) == NeverPopsEmpty(sc, 0)

\* Every answer the arbiter has given so far is a Continue or Done.
NoFaultSoFar ==
    \A i \in 1..Len(juds) : juds[i].tag = "Ok" /\ juds[i].val.tag \in {"Continue", "Done"}

\* C12: with the subject that mirrors a stack and answers every Pop at once,
\* a run over a scenario that never pops the empty reference stack gets no
\* Halt and no error, and returns Done with calls = the scenario length;
\* Done with calls = 7 for the seven-step scenario.
C12_MirrorPasses ==
    (kind = "stack" /\ okind = "good" /\ ValidScenario(script)) =>
        /\ NoFaultSoFar
        /\ Returned => result = Ok(Outcome(Done, Len(script)))
        /\ (Returned /\ script = Scenario1) => result.val.calls = 7

\* C12 witness: the run of test_scenario_1 has returned.
C12_Witness ==
    /\ okind = "good"
    /\ script = Scenario1
    /\ result = Ok(Outcome(Done, 7))
    /\ ObjectCalls = 7

\* C13: with the subject that returns the empty vector on every input, a
\* run over a scenario that never pops the empty reference stack gets no
\* Halt and no error, and returns Done with calls = the scenario length.
C13_SilencePasses ==
    (kind = "stack" /\ okind = "discard" /\ ValidScenario(script)) =>
        /\ NoFaultSoFar
        /\ \A i \in 1..Len(objOuts) : objOuts[i] = <<>>
        /\ Returned => result = Ok(Outcome(Done, Len(script)))

\* C13 witness: the run of test_scenario_1_discard has returned, with three
\* expectations never answered.
C13_Witness ==
    /\ okind = "discard"
    /\ script = Scenario1
    /\ result = Ok(Outcome(Done, 7))
    /\ jst.expect = <<3, 2, 4>>

\* A scenario made of pushes and pops only.
PushesAndPops(sc) == \A i \in 1..Len(sc) : sc[i].op \in {"Push", "Pop"}

\* A Halt among the answers of the arbiter.
Halted == \E i \in 1..Len(juds) : juds[i].tag = "Ok" /\ juds[i].val.tag = "Halt"

\* C14 (as stated): a subject that emits only the correct popped values, in
\* the order of their Pops, however late and however batched, is never
\* halted and its run ends with Done.
C14_DelayAlwaysEndsDone ==
    (kind = "stack" /\ okind = "buffering" /\ PushesAndPops(script)) =>
        /\ ~Halted
        /\ Returned => (result.tag = "Ok" /\ result.val.judgment = Done)

\* C14 (amended): such a subject is never halted, and on every scenario of
\* pushes and pops that never pops the empty reference stack its run gets
\* no error either and returns Done with calls = the scenario length.
C14_DelayNeverFaults ==
    (kind = "stack" /\ okind = "buffering") =>
        /\ ~Halted
        /\ ValidScenario(script) =>
              /\ NoFaultSoFar
              /\ Returned => result = Ok(Outcome(Done, Len(script)))

\* C14 witness: a run that returned Done in which the subject kept the
\* answer to a Pop for itself and released two values together on the next
\* turn.
C14_Witness ==
    /\ okind = "buffering"
    /\ result.tag = "Ok"
    /\ result.val.judgment = Done
    /\ \E i \in 2..Len(objOuts) :
          /\ objIns[i - 1] = Pop
          /\ objOuts[i - 1] = <<>>
          /\ Len(objOuts[i]) = 2

\* The step that is a call to StackJudge::next, and the vector it is given.
StackCall == kind = "stack" /\ pc = "loop" /\ pc' = "match"
\* The call did not fault the subject: it answered Continue or Done.
Accepted(r) == r.tag = "Ok" /\ r.val.tag \in {"Continue", "Done"}
\* What a call appends to the expectation queue: the expectation of the Pop
\* it issued, if it issued one.
Issued(r, expectAfter) ==
    IF r.tag = "Ok" /\ r.val = Continue(Pop)
    THEN <<expectAfter[Len(expectAfter)]>> ELSE <<>>

\* C15: on a turn that is not faulted, the expectation queue only loses the
\* m leading expectations that the first m reactions matched with equal
\* values, and only gains the expectation of a Pop issued by the call: the
\* unmatched expectations stay, in order; and a turn with fewer reactions
\* than expectations, each one silent or equal to its expectation, is not
\* faulted.
C15_UnmatchedExpectationsStay ==
    [][StackCall =>
          LET reactions == out
              before == jst.expect
              after == jst'.expect
          IN  /\ Accepted(jud') =>
                    \E m \in 0..Len(reactions) :
                        /\ m <= Len(before)
                        /\ \A i \in 1..m : reactions[i] = ValueSome(before[i])
                        /\ after = SubSeq(before, m + 1, Len(before)) \o Issued(jud', after)
              /\ (/\ Len(reactions) < Len(before)
                  /\ \A i \in 1..Len(reactions) :
                        reactions[i] \in {ValueNone, ValueSome(before[i])})
                 => Accepted(jud') \/ jud'.tag = "Err"
    ]_vars

\* C16: a call to StackJudge::next with more reactions than outstanding
\* expectations returns Halt("too many reactions"); the Outcome of a run so
\* halted has calls = the number of subject invocations, the last of which
\* is the over-producing one; calls = 1 for the subject that reacts to the
\* first Push of the seven-step scenario.
C16_OverProductionHalts ==
    /\ [][(StackCall /\ Len(out) > Len(jst.expect)) =>
              jud' = Ok(Halt("too many reactions"))]_vars
    /\ []((kind = "stack" /\ result.tag = "Ok"
                /\ result.val.judgment = Halt("too many reactions")) =>
              /\ result.val.calls = ObjectCalls
              /\ result.val.calls = Len(juds) - 1
              /\ result.val.calls >= 1
              /\ nextArgs[Len(nextArgs)] = objOuts[ObjectCalls]
              /\ objOuts[ObjectCalls] # <<>>)
    /\ []((kind = "stack" /\ okind = "dumb" /\ script = Scenario1 /\ Returned) =>
              result = Ok(Outcome(Halt("too many reactions"), 1)))

\* C16 witness: a run halted for over-production on its second turn or
\* later, by two reactions to a Pop.
C16_Witness ==
    /\ kind = "stack"
    /\ result.tag = "Ok"
    /\ result.val.judgment = Halt("too many reactions")
    /\ result.val.calls >= 2
    /\ objIns[ObjectCalls] = Pop
    /\ Len(objOuts[ObjectCalls]) = 2

\* The k-th reaction (1-based) is a value that differs from the k-th
\* outstanding expectation.
Disagrees(reactions, expect, k) ==
    /\ k <= Len(expect)
    /\ reactions[k].op = "Value"
    /\ reactions[k].arg # <<>>
    /\ reactions[k].arg[1] # expect[k]
\* The fault that names the k-th expectation and the k-th value.
ExpectedGot(reactions, expect, k) ==
    Ok(Halt("expected " \o ToString(expect[k]) \o ", got " \o ToString(reactions[k].arg[1])))
\* The run of test_scenario_1_zero_smart ends with Halt("expected 3, got 0")
\* on the first Pop.
ZeroSmartOnScenario1 ==
    (kind = "stack" /\ okind = "zero_smart" /\ script = Scenario1 /\ Returned) =>
        /\ result = Ok(Outcome(Halt("expected 3, got 0"), 4))
        /\ objIns[4] = Pop

\* C17 (as stated): whenever the k-th value produced in a turn disagrees
\* with the k-th outstanding expectation, the call answers Halt with the
\* fault "expected <expected>, got <actual>" of that pair; the subject that
\* answers every Pop with 0 gets Halt("expected 3, got 0") on the first Pop
\* of the seven-step scenario.
C17_AnyMismatchHalts ==
    /\ [][StackCall =>
              \A k \in 1..Len(out) :
                  Disagrees(out, jst.expect, k) => jud' = ExpectedGot(out, jst.expect, k)]_vars
    /\ []ZeroSmartOnScenario1

\* C17 (amended): the same, for a turn with no more reactions than
\* outstanding expectations and a k such that every reaction before the k-th
\* is a value equal to its expectation.
C17_FirstMismatchHalts ==
    /\ [][StackCall =>
              \A k \in 1..Len(out) :
                  (/\ Len(out) <= Len(jst.expect)
                   /\ Disagrees(out, jst.expect, k)
                   /\ \A i \in 1..(k - 1) : out[i] = ValueSome(jst.expect[i]))
                  => jud' = ExpectedGot(out, jst.expect, k)]_vars
    /\ []ZeroSmartOnScenario1

\* C17 witness: a run halted on the second reaction of a turn, the first one
\* having matched.
C17_Witness ==
    /\ kind = "stack"
    /\ result.tag = "Ok"
    /\ result.val.judgment = Halt("expected 2, got 1")
    /\ objOuts[ObjectCalls] = <<ValueSome(1), ValueSome(1)>>

\* C18: when a call halts on a mismatch at the k-th reaction, the
\* expectations behind the k-th are still in the queue after the call, in
\* order (the queue is a suffix of what it was, starting no later than right
\* after the k-th), and the scenario and the reference stack are unchanged.
C18_MismatchConsumesNoMore ==
    [][StackCall =>
          \A k \in 1..Len(out) :
              (/\ Len(out) <= Len(jst.expect)
               /\ Disagrees(out, jst.expect, k)
               /\ \A i \in 1..(k - 1) : out[i] = ValueSome(jst.expect[i]))
              => /\ jud' = ExpectedGot(out, jst.expect, k)
                 /\ \E j \in 1..(k + 1) :
                        jst'.expect = SubSeq(jst.expect, j, Len(jst.expect))
                 /\ jst'.scenario = jst.scenario
                 /\ jst'.ref_impl = jst.ref_impl
    ]_vars

\* No reaction of the turn mismatches the expectation at its position: where
\* there is an expectation, the reaction is silence or the expected value.
NoMismatch(reactions, expect) ==
    \A k \in 1..Len(reactions) :
        k <= Len(expect) => reactions[k] \in {ValueNone, ValueSome(expect[k])}

\* C19 (as stated): a call made when the scenario is exhausted, with
\* reactions none of which mismatches an expectation, answers Done, whatever
\* is left in the expectation queue; the run then returns Done.
C19_ExhaustedWithoutMismatchIsDone ==
    /\ [][(StackCall /\ jst.scenario = <<>> /\ NoMismatch(out, jst.expect)) =>
              jud' = Ok(Done)]_vars
    /\ []((kind = "stack" /\ Returned /\ LastJud = Ok(Done)) =>
              result = Ok(Outcome(Done, Len(script))))

\* C19 (amended): the same, for reactions that are no more than the
\* outstanding expectations.
C19_ExhaustedAcceptedIsDone ==
    /\ [][(/\ StackCall
           /\ jst.scenario = <<>>
           /\ Len(out) <= Len(jst.expect)
           /\ NoMismatch(out, jst.expect)) =>
              jud' = Ok(Done)]_vars
    /\ []((kind = "stack" /\ Returned /\ LastJud = Ok(Done)) =>
              result = Ok(Outcome(Done, Len(script))))

\* C19 witness: a run returned Done with two expectations left in the queue,
\* the subject having reacted on its last turn.
C19_Witness ==
    /\ kind = "stack"
    /\ okind = "any"
    /\ result.tag = "Ok"
    /\ result.val.judgment = Done
    /\ Len(jst.expect) >= 2
    /\ objOuts[ObjectCalls] # <<>>

\* The internal error of a scripted Pop of the empty reference stack.
BadPop == Err("bad sim: more pops than pushes")

NotAValue(r) == r.op \in {"Push", "Pop"}
\* The fault of a reaction that is not a Value.
Undefined == Halt("undefined response from stack")

\* C21: a call to StackJudge::next whose reactions hold a Push or a Pop
\* returns a Halt, never Continue, Done or Err; the Halt is "undefined
\* response from stack" when there are no more reactions than expectations
\* and the reactions before the Push or Pop are values equal to their
\* expectations or silences; the run then returns that Halt, as the run of
\* the subject that answers every Pop with Push(42) does at its first Pop.
C21_PushOrPopReactionHalts ==
    /\ [][(StackCall /\ \E k \in 1..Len(out) : NotAValue(out[k])) =>
              /\ jud'.tag = "Ok"
              /\ jud'.val.tag = "Halt"
              /\ (/\ Len(out) <= Len(jst.expect)
                  /\ \E k \in 1..Len(out) :
                        /\ NotAValue(out[k])
                        /\ \A i \in 1..(k - 1) :
                              out[i] \in {ValueNone, ValueSome(jst.expect[i])})
                 => jud' = Ok(Undefined)]_vars
    /\ []((/\ kind = "stack"
           /\ Returned
           /\ \E i \in 1..Len(objOuts) : \E k \in 1..Len(objOuts[i]) :
                 NotAValue(objOuts[i][k]))
          => result.tag = "Ok" /\ result.val.judgment.tag = "Halt")
    /\ []((/\ kind = "stack"
           /\ okind = "irrelevant"
           /\ Returned
           /\ \E i \in 1..Len(objIns) : objIns[i] = Pop)
          => result.tag = "Ok" /\ result.val.judgment = Undefined)

\* C22: a Value(None) reaction that is reached by the comparison (there are
\* no more reactions than expectations and the reactions before it equal
\* their expectations) raises no fault, and the expectation it was compared
\* with is at the front of the queue after the validation; the run of the
\* subject that is silent on Push and answers every Pop with [Value(None)]
\* returns Done with calls = the scenario length on every scenario of pushes
\* and pops that never pops the empty reference stack, all the expectations
\* being still in the queue.
C22_NoneIsSilence ==
    /\ [][StackCall =>
              \A k \in 1..Len(out) :
                  (/\ Len(out) <= Len(jst.expect)
                   /\ out[k] = ValueNone
                   /\ \A i \in 1..(k - 1) : out[i] = ValueSome(jst.expect[i]))
                  => /\ Accepted(jud') \/ jud'.tag = "Err"
                     /\ jst'.expect # <<>>
                     /\ jst'.expect[1] = jst.expect[k]]_vars
    /\ []((/\ kind = "stack"
           /\ okind = "empty"
           /\ PushesAndPops(script)
           /\ ValidScenario(script)
           /\ Returned)
          => /\ result = Ok(Outcome(Done, Len(script)))
             /\ Len(jst.expect) = Cardinality({i \in 1..Len(script) : script[i] = Pop}))

\* C22 witness: the run of test_scenario_1_empty has returned Done after 7
\* calls, each Pop having been answered with [Value(None)].
C22_Witness ==
    /\ okind = "empty"
    /\ script = Scenario1
    /\ result = Ok(Outcome(Done, 7))
    /\ objOuts[4] = <<ValueNone>>
    /\ jst.expect = <<3, 2, 4>>

\* An ideal stack run over a sequence of pushes and pops, from item i on:
\* the stack it ends with and the values its pops returned.
RECURSIVE IdealRun(_, _, _, _)
IdealRun(items, i, stack, pops) ==
    IF i > Len(items) THEN [stack |-> stack, pops |-> pops]
    ELSE IF items[i].op = "Push"
         THEN IdealRun(items, i + 1, Append(stack, items[i].arg[1]), pops)
         ELSE IF items[i].op = "Pop" /\ stack # <<>>
              THEN IdealRun(items, i + 1, SubSeq(stack, 1, Len(stack) - 1),
                            Append(pops, stack[Len(stack)]))
              ELSE IdealRun(items, i + 1, stack, pops)
IdealStack(items) == IdealRun(items, 1, <<>>, <<>>).stack
IdealPops(items) == IdealRun(items, 1, <<>>, <<>>).pops
\* The scenario items the arbiter has issued with a Continue so far.
IssuedItems ==
    LET n == Cardinality({i \in 1..Len(juds) : MatchArm(juds[i]) = "Continue"})
    IN  [i \in 1..n |-> juds[i].val.val]

\* C24: a call that issues a scripted Pop appends to the back of the
\* expectation queue the top of the ideal stack run over the items delivered
\* before it, and nothing else; a call that issues a Push appends nothing;
\* the reference stack is always the ideal stack of the items issued; and
\* with a subject that never reacts, so that nothing is ever removed from
\* the queue, the queue is the sequence of pop results of the ideal stack
\* run over the items issued.
C24_ReferenceIsLifo ==
    /\ [][StackCall =>
              LET ideal == IdealStack(objIns)
              IN  /\ jud' = Ok(Continue(Pop)) =>
                        /\ ideal # <<>>
                        /\ jst'.expect # <<>>
                        /\ jst'.expect[Len(jst'.expect)] = ideal[Len(ideal)]
                        /\ Len(jst'.expect) <= Len(jst.expect) + 1
                  /\ (MatchArm(jud') = "Continue" /\ jud'.val.val.op = "Push") =>
                        Len(jst'.expect) <= Len(jst.expect)]_vars
    /\ [](kind = "stack" => jst.ref_impl = IdealStack(IssuedItems))
    /\ []((kind = "stack" /\ okind = "discard") => jst.expect = IdealPops(IssuedItems))

\* C24 witness: the silent subject has been run on scenario_4, whose five
\* pops interleave with its pushes.
C24_Witness ==
    /\ okind = "discard"
    /\ script = Scenario4
    /\ Returned
    /\ jst.expect = <<3, 2, 1, 5, 4>>
    /\ IssuedItems = Scenario4

\* C25: every run of judge() with a StackJudge returns; each call that
\* answers Continue removes exactly one item from the scenario; calls never
\* exceeds the length of the initial scenario, and Judge::next is called at
\* most that length plus one times.
C25_StackRunTerminates ==
    /\ <>Returned
    /\ [][(StackCall /\ MatchArm(jud') = "Continue") =>
              /\ jst.scenario # <<>>
              /\ jst'.scenario = Tail(jst.scenario)]_vars
    /\ [](/\ ite <= Len(script)
          /\ ObjectCalls <= Len(script)
          /\ JudgeCalls <= Len(script) + 1)

\* C25 witness: a run on a scenario of MaxScenario items has returned after
\* MaxScenario + 1 calls to Judge::next.
C25_Witness ==
    /\ kind = "stack"
    /\ Len(script) = MaxScenario
    /\ Returned
    /\ JudgeCalls = Len(script) + 1
    /\ ite = Len(script)

\* C26: the inputs delivered to the subject are a prefix of the scenario, in
\* scenario order, each item once; when the run returns Done the whole
\* scenario has been delivered and calls is its length.
C26_DeliversScenarioPrefix ==
    kind = "stack" =>
        /\ ObjectCalls <= Len(script)
        /\ objIns = SubSeq(script, 1, ObjectCalls)
        /\ (Returned /\ result.tag = "Ok" /\ result.val.judgment = Done) =>
              /\ objIns = script
              /\ result.val.calls = Len(script)

\* C26 witness: a run on a scenario of four items, no two adjacent ones
\* equal, has returned Done.
C26_Witness ==
    /\ kind = "stack"
    /\ script = <<Push(1), Push(2), Pop, Pop>>
    /\ result = Ok(Outcome(Done, 4))
    /\ objIns = script

\* A reaction vector the validation has to fault against the queue expect:
\* more reactions than expectations, a Push or a Pop among the reactions, or
\* a value unequal to its expectation after values equal to theirs.
Faulting(reactions, expect) ==
    \/ Len(reactions) > Len(expect)
    \/ \E k \in 1..Len(reactions) : NotAValue(reactions[k])
    \/ \E k \in 1..Len(reactions) :
          /\ \A i \in 1..(k - 1) : reactions[i] = ValueSome(expect[i])
          /\ reactions[k] \notin {ValueNone, ValueSome(expect[k])}
\* The next scripted step cannot be simulated.
ImpossibleNext(s) ==
    /\ s.scenario # <<>>
    /\ \/ Head(s.scenario).op = "Value"
       \/ Head(s.scenario) = Pop /\ s.ref_impl = <<>>

\* C27: a call to StackJudge::next given a faulting reaction vector while
\* the next scripted step is impossible returns Halt and not Err; and a call
\* that returns Halt leaves the scenario and the reference stack unchanged.
C27_ValidatesBeforeSimulating ==
    [][StackCall =>
          /\ (Faulting(out, jst.expect) /\ ImpossibleNext(jst)) =>
                jud'.tag = "Ok" /\ jud'.val.tag = "Halt"
          /\ (jud'.tag = "Ok" /\ jud'.val.tag = "Halt") =>
                /\ jst'.scenario = jst.scenario
                /\ jst'.ref_impl = jst.ref_impl]_vars

(***************************************************************************)
(* Properties of the guessing game.                                        *)
(***************************************************************************)
\* The number of guesses among the first i vectors given to MyJudge::next:
\* the turns in which the agent produced a reaction.
GuessesUpTo(i) == Cardinality({j \in 1..i : nextArgs[j] # <<>>})

\* C23: the run of MyJudge with target 42 and the bisecting agent returns
\* an Outcome whose judgment is Done; whatever the agent and the target, a
\* call to MyJudge::next answers Done exactly when the last reaction of the
\* turn is the target and the agent has made at most 10 guesses, answers
\* Halt on the 11th guess, and answers Halt on a turn after the first in
\* which the agent produced no reaction.
C23_GuessingGame ==
    kind = "guess" =>
        /\ (okind = "bisect" /\ jst.target = 42 /\ Returned) =>
              result.tag = "Ok" /\ result.val.judgment = Done
        /\ \A i \in 1..Len(juds) :
              LET reactions == nextArgs[i]
                  correct == /\ reactions # <<>>
                             /\ reactions[Len(reactions)] = GuessValue(jst.target)
              IN  /\ juds[i] = Ok(Done) <=> (i > 1 /\ correct /\ GuessesUpTo(i) <= 10)
                  /\ (reactions # <<>> /\ GuessesUpTo(i) = 11) =>
                        juds[i] = Ok(Halt(ItWasMsg(jst.target)))
                  /\ (i > 1 /\ reactions = <<>>) => juds[i] = Ok(Halt(PassMsg))

\* C23 witness: the documented run has returned Done; the bisecting agent
\* found 42 with its ninth guess.
C23_Witness ==
    /\ kind = "guess"
    /\ okind = "bisect"
    /\ jst.target = 42
    /\ result = Ok(Outcome(Done, 9))
    /\ objOuts[9] = <<GuessValue(42)>>
    /\ objOuts[8] = <<GuessValue(38)>>

====
